---- MODULE Spec2Model ----
(***************************************************************************)
(* A model of lung_segmentation_tool/segmenter.py: segment_lungs,          *)
(* largest_label_volume and generate_mesh_from_scan, together with the      *)
(* parts of skimage.measure (label, marching_cubes) and numpy they call.    *)
(*                                                                          *)
(* A numpy array is a record [shape, data]: shape is <<depth, height,       *)
(* width>> and data maps every index <<z, y, x>> to an integer.  Buffers    *)
(* live in a heap and the Python names hold references to them, so that an  *)
(* in-place update is visible through every name that shares the buffer.    *)
(*                                                                          *)
(* A second specification, ViewerSpec, models the slice navigation of       *)
(* lung_segmentation_tool/viewer.py: the Viewer's constructor and its mouse *)
(* and resize handlers.  Rendering state (rotation, matrices, textures) is  *)
(* not part of it.                                                          *)
(***************************************************************************)
EXTENDS Integers, Sequences, FiniteSets, TLC

VARIABLES
    heap,                 \* buffer id -> array (the memory the names point to)
    fill_lung_structures, \* the flag of the call
    binary_image,         \* the buffer the name binary_image is bound to
    labels,               \* the global label volume (lines 25 and 46)
    background_label,     \* labels[0, 0, 0] (line 27)
    i,                    \* index of the next slice of the per-slice loop
    axial_slice,          \* the loop's local copy, slice - 1 (line 34)
    labeling,             \* the slice's label image (line 36)
    l_max,                \* result of largest_label_volume (Option)
    pc,                   \* position in segment_lungs / the pipeline
    error,                \* the exception that ended the call, or "none"
    run,                  \* 1: the call on the scan, 2: the call on its own output
    first_mask,           \* the mask the first call returned (Option)
    mesh,                 \* what generate_mesh_from_scan returned or raised
    transverse_size,      \* Viewer: side of the transverse view, in pixels
    segmented_width,      \* Viewer: width of the mesh view, in pixels
    coronal_slice,        \* Viewer: index along scan axis 1
    sagittal_slice,       \* Viewer: index along scan axis 2
    transverse_slice,     \* Viewer: index along scan axis 0
    transverse_position,  \* Viewer: the float position, in 1/ScrollUnit slices
    mouse_down_segmented, \* Viewer: a drag of the mesh view is in progress
    mouse_down_transverse,\* Viewer: a drag of the transverse view is in progress
    zoom                  \* Viewer: the float zoom, in 1/ScrollUnit units

\* The state of segment_lungs and generate_mesh_from_scan.
segmenter_vars == <<heap, fill_lung_structures, binary_image, labels, background_label, i,
                    axial_slice, labeling, l_max, pc, error, run, first_mask, mesh>>

\* The fields of the Viewer.
viewer_vars == <<transverse_size, segmented_width, coronal_slice, sagittal_slice,
                 transverse_slice, transverse_position, mouse_down_segmented,
                 mouse_down_transverse, zoom>>

vars == <<heap, fill_lung_structures, binary_image, labels, background_label, i,
          axial_slice, labeling, l_max, pc, error, run, first_mask, mesh,
          transverse_size, segmented_width, coronal_slice, sagittal_slice,
          transverse_slice, transverse_position, mouse_down_segmented,
          mouse_down_transverse, zoom>>

----------------------------------------------------------------------------
\* Bounds of the model.

\* Largest number of voxels of an arbitrary input volume.
MaxVoxels == 8

\* Largest side of a nested cube-in-shell-in-air volume.
MaxSide == 6

\* Largest marching-cubes step size.
MaxStep == 2

\* Largest side of a scan shown in the Viewer.
MaxScanSide == 2

\* Largest width and height of the Viewer's window, in pixels.
MaxWindow == 2

\* Resolution of the Viewer's floats: a scroll amount, the transverse
\* position and the zoom are multiples of 1/ScrollUnit.
ScrollUnit == 4

\* Largest scroll amount of one scroll event, in 1/ScrollUnit.
MaxScroll == 4

\* Largest distance of the zoom from its initial value, in scroll rates.
MaxZoomTravel == 1

----------------------------------------------------------------------------
\* Program constants.  The arrays are int8, but the only values the code ever
\* stores are -1 .. 2 (and labels), so no operation wraps.

\* segment_lungs: image > -320
DenseThreshold == -320

\* generate_mesh_from_scan: threshold = 0
threshold == 0

\* Intensities on both sides of the cutoff, including the cutoff itself.
Intensities == {-320, -319}

\* Option values: Python's None and a present value.
None == <<>>
Some(x) == <<x>>

----------------------------------------------------------------------------
\* numpy arrays.

\* The indices of an array of the given shape.
Voxels(shape) == (0 .. shape[1] - 1) \X (0 .. shape[2] - 1) \X (0 .. shape[3] - 1)

\* An array of the given shape filled by f.
MakeArray(shape, f(_)) == [shape |-> shape, data |-> [v \in Voxels(shape) |-> f(v)]]

\* A name that is not bound to any buffer yet.
Unallocated == [shape |-> <<>>, data |-> <<>>]

\* arr.size == 0
IsEmpty(arr) == DOMAIN arr.data = {}

\* Position of an index in C (row-major) order.
Raster(shape, v) == (v[1] * shape[2] + v[2]) * shape[3] + v[3]

\* arr[z, y, x]: the element, or None where numpy raises IndexError.
Index3Unchecked(arr, z, y, x) ==
    IF <<z, y, x>> \in DOMAIN arr.data THEN Some(arr.data[<<z, y, x>>]) ELSE Some(0)

Index3(arr, z, y, x) ==
    IF <<z, y, x>> \in DOMAIN arr.data THEN Some(arr.data[<<z, y, x>>]) ELSE None

----------------------------------------------------------------------------
\* skimage.measure.label

Abs(n) == IF n < 0 THEN -n ELSE n

\* Offsets[c]: the index offsets that are at most c orthogonal hops away.
Offsets[c \in 1 .. 3] ==
    {o \in (-1 .. 1) \X (-1 .. 1) \X (-1 .. 1) :
        Abs(o[1]) + Abs(o[2]) + Abs(o[3]) \in 1 .. c}

Neighbours(v, c) == {<<v[1] + o[1], v[2] + o[2], v[3] + o[3]>> : o \in Offsets[c]}

\* Face adjacency only (connectivity=1).
FaceConnectivity(ndim) == 1

\* label(...) is called without connectivity: "If None, a full connectivity of
\* input.ndim is used", so edge and corner neighbours are neighbours too.
LabelConnectivity(ndim) == ndim

\* The same set, enumerated (TLC keeps filters, unions and differences symbolic).
Enumerated(S) == {x : x \in S}

\* The voxels of `allowed` reachable from `frontier` through neighbours.
RECURSIVE Grow(_, _, _, _)
Grow(frontier, seen, allowed, c) ==
    LET new == Enumerated({u \in UNION {Neighbours(v, c) : v \in frontier} :
                              u \in allowed /\ u \notin seen})
    IN  IF new = {} THEN seen ELSE Grow(new, Enumerated(seen \cup new), allowed, c)

\* The connected regions of equal value among `remaining`, in the order of
\* their first voxel in raster order: the order in which label numbers them
\* (a region's root is its first voxel, and roots are numbered by a raster scan).
RECURSIVE ComponentsFrom(_, _, _, _)
ComponentsFrom(arr, remaining, c, acc) ==
    IF remaining = {} THEN acc
    ELSE LET seed == CHOOSE v \in remaining : \A u \in remaining :
                          Raster(arr.shape, v) <= Raster(arr.shape, u)
             same == Enumerated({u \in remaining : arr.data[u] = arr.data[seed]})
             comp == Grow({seed}, {seed}, same, c)
         IN  ComponentsFrom(arr, Enumerated(remaining \ comp), c, Append(acc, comp))

\* The label image of the regions comps (numbered from 1) over vox.
LabelImage(vox, comps) ==
    [v \in vox |-> IF \E k \in 1 .. Len(comps) : v \in comps[k]
                   THEN CHOOSE k \in 1 .. Len(comps) : v \in comps[k]
                   ELSE 0]

\* measure.label(arr, background=background) of an array with ndim axes:
\* background voxels get 0, every other connected region of equal value gets
\* its own label 1, 2, ...
Label(arr, background, ndim) ==
    LET vox == DOMAIN arr.data
        fg == Enumerated({v \in vox : arr.data[v] # background})
    IN  [shape |-> arr.shape,
         data |-> LabelImage(vox, ComponentsFrom(arr, fg, LabelConnectivity(ndim), <<>>))]

\* label on an array without elements: the library either returns an empty
\* label array or raises an error of its own; segment_lungs does not decide
\* which, so both outcomes are possible.
LabelOutcomes(arr) == IF IsEmpty(arr) THEN {"ok", "LabelError"} ELSE {"ok"}

----------------------------------------------------------------------------
\* largest_label_volume

\* The label that np.argmax picks when it takes the first label instead of
\* the most frequent one.
largest_label_volume_first(im, bg) ==
    LET kept == {x \in {im.data[v] : v \in DOMAIN im.data} : x # bg}
    IN  IF kept # {} THEN Some(CHOOSE x \in kept : \A y \in kept : x <= y) ELSE None

\* vals, counts = np.unique(im, return_counts=True); drop bg; the label with
\* the largest count (argmax: the first, i.e. smallest, on a tie), or None.
largest_label_volume(im, bg) ==
    LET vals == {im.data[v] : v \in DOMAIN im.data}
        kept == {x \in vals : x # bg}
        counts == [x \in kept |-> Cardinality({v \in DOMAIN im.data : im.data[v] = x})]
    IN  IF \E x \in kept : counts[x] # 0
        THEN Some(CHOOSE x \in kept : \A y \in kept :
                      counts[y] < counts[x] \/ (counts[y] = counts[x] /\ x <= y))
        ELSE None

----------------------------------------------------------------------------
\* generate_mesh_from_scan and skimage.measure.marching_cubes.  Positions and
\* iso-levels are kept doubled (in half-voxel units) so that a midpoint is an
\* integer.

\* The two states of a mask.
MaskBackground == 0
MaskForeground == 1

\* Twice the midpoint between the two mask states (0.5).
MidpointLevel2 == MaskBackground + MaskForeground

\* Twice the level passed to marching_cubes: threshold.
IsoLevel2 == 2 * threshold

\* binary_image.transpose(2, 1, 0): a view with the axes reversed.
Transpose(arr) ==
    MakeArray(<<arr.shape[3], arr.shape[2], arr.shape[1]>>,
              LAMBDA v : arr.data[<<v[3], v[2], v[1]>>])

\* The cells visited with the given step: range(0, N - step, step) per axis.
Cells(shape, step) ==
    {c \in Voxels(shape) : \A k \in 1 .. 3 : c[k] % step = 0 /\ c[k] + step <= shape[k] - 1}

\* The twelve edges of the cell at c, as pairs of corner indices.
CellEdges(c, step) ==
    LET corners == {<<c[1] + step * d[1], c[2] + step * d[2], c[3] + step * d[3]>> :
                        d \in (0 .. 1) \X (0 .. 1) \X (0 .. 1)}
    IN  {e \in corners \X corners :
            Abs(e[2][1] - e[1][1]) + Abs(e[2][2] - e[1][2]) + Abs(e[2][3] - e[1][3]) = step}

\* The vertex on an edge whose end lo is not above the level and whose end hi
\* is: the linear interpolation of the level between the two ends (doubled).
EdgeVertex2(vol, lo, hi, level2) ==
    LET num == level2 - 2 * vol.data[lo]
        den == vol.data[hi] - vol.data[lo]
    IN  [k \in 1 .. 3 |-> 2 * lo[k] + ((hi[k] - lo[k]) * num) \div den]

\* The vertices of the iso-surface: one on every cell edge the level crosses.
SurfaceVertices2(vol, level2, step) ==
    LET crossing == {e \in UNION {CellEdges(c, step) : c \in Cells(vol.shape, step)} :
                        2 * vol.data[e[1]] <= level2 /\ 2 * vol.data[e[2]] > level2}
    IN  {EdgeVertex2(vol, e[1], e[2], level2) : e \in crossing}

\* marching_cubes without its closing check: an extraction that finds no
\* vertex is returned as an empty mesh.
marching_cubes_empty_mesh(vol, level2, step) ==
    LET vals == {vol.data[v] : v \in DOMAIN vol.data}
        raised(e) == [status |-> e, level2 |-> level2, step |-> step, verts |-> {}]
    IN  IF \E k \in 1 .. 3 : vol.shape[k] < 2
        THEN raised("ValueError")
        ELSE IF \E x \in vals : (\A y \in vals : x <= y) /\ level2 < 2 * x
        THEN raised("ValueError")
        ELSE IF \E x \in vals : (\A y \in vals : y <= x) /\ level2 > 2 * x
        THEN raised("ValueError")
        ELSE [status |-> "ok", level2 |-> level2, step |-> step,
              verts |-> SurfaceVertices2(vol, level2, step)]

\* measure.marching_cubes(volume, level, step_size=step): what it returns
\* (status "ok" and the vertices) or the exception it raises.
marching_cubes(vol, level2, step) ==
    LET vals == {vol.data[v] : v \in DOMAIN vol.data}
        raised(e) == [status |-> e, level2 |-> level2, step |-> step, verts |-> {}]
    IN  IF \E k \in 1 .. 3 : vol.shape[k] < 2
        THEN raised("ValueError")     \* "Input array must be at least 2x2x2."
        ELSE IF \E x \in vals : (\A y \in vals : x <= y) /\ level2 < 2 * x
        THEN raised("ValueError")     \* "Surface level must be within volume data range."
        ELSE IF \E x \in vals : (\A y \in vals : y <= x) /\ level2 > 2 * x
        THEN raised("ValueError")
        ELSE LET verts == SurfaceVertices2(vol, level2, step)
             IN  IF verts = {}
                 THEN raised("RuntimeError")  \* "No surface found at the given iso value."
                 ELSE [status |-> "ok", level2 |-> level2, step |-> step, verts |-> verts]

generate_mesh_from_scan(arr, step_size) ==
    marching_cubes(Transpose(arr), IsoLevel2, step_size)

\* Before generate_mesh_from_scan has been called.
NoMesh == [status |-> "none", level2 |-> 0, step |-> 0, verts |-> {}]

----------------------------------------------------------------------------
\* Input volumes.

\* Every volume of at most MaxVoxels voxels, each at or just above the cutoff.
GeneralShapes ==
    {s \in (1 .. MaxVoxels) \X (1 .. MaxVoxels) \X (1 .. MaxVoxels) :
        s[1] * s[2] * s[3] <= MaxVoxels}

GeneralVolumes ==
    UNION {{[shape |-> s, data |-> f] : f \in [Voxels(s) -> Intensities]} :
               s \in GeneralShapes}

\* Volumes with a zero-length axis.
EmptyVolumes ==
    {MakeArray(s, LAMBDA v : 0) :
        s \in {t \in (0 .. 2) \X (0 .. 2) \X (0 .. 2) : t[1] * t[2] * t[3] = 0}}

\* A cube of side c inside a shell of thickness t inside air: m0 voxels of air
\* before the shell and m1 after it, along every axis.
NestedConfigs ==
    {cfg \in [c : 1 .. MaxSide, t : 1 .. MaxSide, m0 : 1 .. MaxSide, m1 : 1 .. MaxSide] :
        cfg.c + 2 * cfg.t + cfg.m0 + cfg.m1 <= MaxSide}

NestedSide(cfg) == cfg.c + 2 * cfg.t + cfg.m0 + cfg.m1

InCube(cfg, v) ==
    \A k \in 1 .. 3 : v[k] \in (cfg.m0 + cfg.t) .. (cfg.m0 + cfg.t + cfg.c - 1)

InShell(cfg, v) ==
    /\ \A k \in 1 .. 3 : v[k] \in cfg.m0 .. (cfg.m0 + 2 * cfg.t + cfg.c - 1)
    /\ ~InCube(cfg, v)

NestedVolume(cfg, inner, shell, outer) ==
    MakeArray(<<NestedSide(cfg), NestedSide(cfg), NestedSide(cfg)>>,
              LAMBDA v : IF InCube(cfg, v) THEN inner
                         ELSE IF InShell(cfg, v) THEN shell ELSE outer)

\* <<inner, shell, outer>> intensities: air at or below the cutoff, shell above.
NestedIntensities == {<<-1000, 400, -320>>, <<-320, -319, -1000>>}

NestedVolumes ==
    {NestedVolume(cfg, t[1], t[2], t[3]) : cfg \in NestedConfigs, t \in NestedIntensities}

InputVolumes == GeneralVolumes \cup EmptyVolumes \cup NestedVolumes

----------------------------------------------------------------------------
\* segment_lungs, one action per statement group.

\* The caller's volume and the mask the call has returned.
image == heap["image"]
mask == heap[binary_image]

\* The comparison without the "+ 1".
ThresholdValueUnshifted(x) == IF x > DenseThreshold THEN 1 ELSE 0

\* np.array(image > -320, dtype=np.int8) + 1: 1 is air, 2 is dense.
ThresholdValue(x) == (IF x > DenseThreshold THEN 1 ELSE 0) + 1

\* Thresholding the caller's buffer in place.
CallerBuffer == "image"

\* np.array(...) + 1 allocates the array binary_image is bound to.
ThresholdBuffer == "b1"

\* Only the corner voxel itself.
CornerVoxelOnly(lab, bl) == {<<0, 0, 0>>} \cap DOMAIN lab.data

\* background_label == labels: the voxels that share the corner's label.
BackgroundRegion(lab, bl) == {v \in DOMAIN lab.data : lab.data[v] = bl}

\* arr[where] = value, in place.
AssignWhere(arr, where, value) ==
    [arr EXCEPT !.data = [v \in DOMAIN arr.data |-> IF v \in where THEN value ELSE arr.data[v]]]

\* The Viewer class attributes (viewer.py lines 137, 138, 142).
InitialZoom == -450

\* No window has been constructed: the class attributes hold, the instance
\* fields do not exist yet.
ViewerClosed ==
    /\ transverse_size = 0
    /\ segmented_width = 0
    /\ coronal_slice = 0
    /\ sagittal_slice = 0
    /\ transverse_slice = 0
    /\ transverse_position = 0
    /\ mouse_down_segmented = FALSE
    /\ mouse_down_transverse = FALSE
    /\ zoom = InitialZoom * ScrollUnit

Init ==
    /\ \E vol \in InputVolumes :
           heap = [image |-> vol, b1 |-> Unallocated, b2 |-> Unallocated]
    /\ fill_lung_structures \in BOOLEAN
    /\ binary_image = "none"
    /\ labels = Unallocated
    /\ background_label = None
    /\ i = 0
    /\ axial_slice = Unallocated
    /\ labeling = Unallocated
    /\ l_max = None
    /\ pc = "start"
    /\ error = "none"
    /\ run = 1
    /\ first_mask = None
    /\ mesh = NoMesh
    /\ ViewerClosed

\* Line 23.
Threshold ==
    /\ pc = "start"
    /\ heap' = [heap EXCEPT ![ThresholdBuffer] =
                   MakeArray(image.shape, LAMBDA v : ThresholdValue(image.data[v]))]
    /\ binary_image' = ThresholdBuffer
    /\ pc' = "thresholded"
    /\ UNCHANGED <<fill_lung_structures, labels, background_label, i, axial_slice,
                   labeling, l_max, error, run, first_mask, mesh>>
    /\ UNCHANGED viewer_vars

\* Line 25.
LabelVolume ==
    /\ pc = "thresholded"
    /\ \E outcome \in LabelOutcomes(mask) :
          IF outcome = "ok"
          THEN /\ labels' = Label(mask, 0, 3)
               /\ pc' = "labeled"
               /\ error' = error
          ELSE /\ labels' = labels
               /\ pc' = "raised"
               /\ error' = outcome
    /\ UNCHANGED <<heap, fill_lung_structures, binary_image, background_label, i,
                   axial_slice, labeling, l_max, run, first_mask, mesh>>
    /\ UNCHANGED viewer_vars

\* Line 27.
CornerLookup ==
    /\ pc = "labeled"
    /\ \E r \in {Index3(labels, 0, 0, 0)} :
          IF r = None
          THEN /\ pc' = "raised"
               /\ error' = "IndexError"
               /\ background_label' = background_label
          ELSE /\ pc' = "corner"
               /\ error' = error
               /\ background_label' = r
    /\ UNCHANGED <<heap, fill_lung_structures, binary_image, labels, i, axial_slice,
                   labeling, l_max, run, first_mask, mesh>>
    /\ UNCHANGED viewer_vars

\* Line 29.
FillAir ==
    /\ pc = "corner"
    /\ heap' = [heap EXCEPT ![binary_image] =
                   AssignWhere(@, BackgroundRegion(labels, background_label[1]), 2)]
    /\ i' = 0
    /\ pc' = "loop"
    /\ UNCHANGED <<fill_lung_structures, binary_image, labels, background_label,
                   axial_slice, labeling, l_max, error, run, first_mask, mesh>>
    /\ UNCHANGED viewer_vars

\* Lines 34-40 with the update of line 40 not confined to slice k: the
\* positions off the kept region are written in every slice.
FillSliceBodyAllSlices(arr, k) ==
    LET sl == MakeArray(<<1, arr.shape[2], arr.shape[3]>>,
                        LAMBDA v : arr.data[<<k, v[2], v[3]>>] - 1)
        lab == Label(sl, 0, 2)
        lm == largest_label_volume(lab, 0)
    IN  [axial_slice |-> sl,
         labeling |-> lab,
         l_max |-> lm,
         out |-> IF lm # None
                 THEN AssignWhere(arr, {v \in DOMAIN arr.data :
                                           lab.data[<<0, v[2], v[3]>>] # lm[1]}, 1)
                 ELSE arr]

\* Lines 34-40 on slice k of arr: the locals of the iteration and the array
\* after the in-place update of the slice.
FillSliceBody(arr, k) ==
    LET sl == MakeArray(<<1, arr.shape[2], arr.shape[3]>>,
                        LAMBDA v : arr.data[<<k, v[2], v[3]>>] - 1)
        lab == Label(sl, 0, 2)
        lm == largest_label_volume(lab, 0)
    IN  [axial_slice |-> sl,
         labeling |-> lab,
         l_max |-> lm,
         out |-> IF lm # None
                 THEN AssignWhere(arr, {v \in DOMAIN arr.data :
                                           v[1] = k /\ lab.data[<<0, v[2], v[3]>>] # lm[1]}, 1)
                 ELSE arr]

\* Lines 32-40: one iteration of the per-slice loop.
FillSlice ==
    /\ pc = "loop"
    /\ fill_lung_structures
    /\ i < mask.shape[1]
    /\ \E r \in {FillSliceBody(mask, i)} :
          /\ axial_slice' = r.axial_slice
          /\ labeling' = r.labeling
          /\ l_max' = r.l_max
          /\ heap' = [heap EXCEPT ![binary_image] = r.out]
    /\ i' = i + 1
    /\ UNCHANGED <<fill_lung_structures, binary_image, labels, background_label, pc,
                   error, run, first_mask, mesh>>
    /\ UNCHANGED viewer_vars

\* binary_image -= 1 (in place).
Decrement(arr) == [arr EXCEPT !.data = [v \in DOMAIN arr.data |-> arr.data[v] - 1]]

\* The copy without the inversion.
ComplementMissing(arr) == arr

\* 1 - binary_image (a new array).
Complement(arr) == [arr EXCEPT !.data = [v \in DOMAIN arr.data |-> 1 - arr.data[v]]]

\* Lines 43-44.
Invert ==
    /\ pc = "loop"
    /\ ~fill_lung_structures \/ i = mask.shape[1]
    /\ \E minus \in {Decrement(mask)} :
          heap' = [heap EXCEPT ![binary_image] = minus, !["b2"] = Complement(minus)]
    /\ binary_image' = "b2"
    /\ pc' = "inverted"
    /\ UNCHANGED <<fill_lung_structures, labels, background_label, i, axial_slice,
                   labeling, l_max, error, run, first_mask, mesh>>
    /\ UNCHANGED viewer_vars

\* Line 46.
Relabel ==
    /\ pc = "inverted"
    /\ labels' = Label(mask, 0, 3)
    /\ pc' = "relabeled"
    /\ UNCHANGED <<heap, fill_lung_structures, binary_image, background_label, i,
                   axial_slice, labeling, l_max, error, run, first_mask, mesh>>
    /\ UNCHANGED viewer_vars

\* Lines 47-49 on arr with the final label volume lab.
IsolateBody(arr, lab) ==
    LET lm == largest_label_volume(lab, 0)
    IN  [l_max |-> lm,
         out |-> IF lm # None
                 THEN AssignWhere(arr, {v \in DOMAIN lab.data : lab.data[v] # lm[1]}, 0)
                 ELSE arr]

\* Lines 47-51.
Isolate ==
    /\ pc = "relabeled"
    /\ \E r \in {IsolateBody(mask, labels)} :
          /\ l_max' = r.l_max
          /\ heap' = [heap EXCEPT ![binary_image] = r.out]
    /\ pc' = "done"
    /\ UNCHANGED <<fill_lung_structures, binary_image, labels, background_label, i,
                   axial_slice, labeling, error, run, first_mask, mesh>>
    /\ UNCHANGED viewer_vars

\* The caller passes the returned mask to generate_mesh_from_scan.
GenerateMesh ==
    /\ pc = "done"
    /\ \E step_size \in 1 .. MaxStep : mesh' = generate_mesh_from_scan(mask, step_size)
    /\ pc' = "meshed"
    /\ UNCHANGED <<heap, fill_lung_structures, binary_image, labels, background_label, i,
                   axial_slice, labeling, l_max, error, run, first_mask>>
    /\ UNCHANGED viewer_vars

\* The caller feeds the returned mask back in the threshold sense (foreground
\* as a non-dense intensity, background as a dense one) with the same flag.
Reencode ==
    /\ pc = "done"
    /\ run = 1
    /\ heap' = [image |-> MakeArray(mask.shape,
                                    LAMBDA v : IF mask.data[v] = 1 THEN DenseThreshold
                                               ELSE DenseThreshold + 1),
                b1 |-> Unallocated, b2 |-> Unallocated]
    /\ first_mask' = Some(mask)
    /\ run' = 2
    /\ binary_image' = "none"
    /\ labels' = Unallocated
    /\ background_label' = None
    /\ i' = 0
    /\ axial_slice' = Unallocated
    /\ labeling' = Unallocated
    /\ l_max' = None
    /\ pc' = "start"
    /\ UNCHANGED <<fill_lung_structures, error, mesh>>
    /\ UNCHANGED viewer_vars

Next ==
    \/ Threshold
    \/ LabelVolume
    \/ CornerLookup
    \/ FillAir
    \/ FillSlice
    \/ Invert
    \/ Relabel
    \/ Isolate
    \/ GenerateMesh
    \/ Reencode

Spec == Init /\ [][Next]_vars

----------------------------------------------------------------------------
\* The Viewer (viewer.py).  Pixel coordinates are integers; the floats
\* transverse_position and zoom are kept as integers in 1/ScrollUnit.

\* self.scan: the loaded volume the window shows.
scan == heap["image"]

\* The scans, window sizes, mouse coordinates and scroll amounts considered.
\* A coordinate left of or below the window is clamped like one left of or
\* below the transverse view, which these coordinates include.
ScanShapes == (1 .. MaxScanSide) \X (1 .. MaxScanSide) \X (1 .. MaxScanSide)
WindowSides == 1 .. MaxWindow
MouseCoords == 0 .. MaxWindow
ScrollAmounts == -MaxScroll .. MaxScroll

\* self.zoom -= scroll_y * 3.0
ZoomRate == 3

\* math.ceil(2.0 * height / 3.0)
calculate_transverse_size(height) == (2 * height + 2) \div 3

\* int(n) without the rounding: the integer part of a non-negative n.
PyTruncate(n) == n \div ScrollUnit

\* int(round(n)) for n in 1/ScrollUnit: the nearest integer, a tie going to
\* the even neighbour.
PyRound(n) ==
    LET q == n \div ScrollUnit
        r == n % ScrollUnit
    IN  IF 2 * r < ScrollUnit THEN q
        ELSE IF 2 * r > ScrollUnit THEN q + 1
        ELSE IF q % 2 = 0 THEN q ELSE q + 1

\* int(max(0, min(num / den * n, n - 1))) for den > 0.
SliceAt(num, den, n) ==
    IF num * n <= 0 THEN 0
    ELSE IF num * n >= (n - 1) * den THEN n - 1
    ELSE (num * n) \div den

\* Viewer.__init__(w, h, scan, vertices, faces), lines 144-154.
ViewerInit ==
    /\ \E shape \in ScanShapes :
          heap = [image |-> MakeArray(shape, LAMBDA v : DenseThreshold),
                  b1 |-> Unallocated, b2 |-> Unallocated]
    /\ fill_lung_structures = TRUE
    /\ binary_image = "none"
    /\ labels = Unallocated
    /\ background_label = None
    /\ i = 0
    /\ axial_slice = Unallocated
    /\ labeling = Unallocated
    /\ l_max = None
    /\ pc = "viewer"
    /\ error = "none"
    /\ run = 1
    /\ first_mask = None
    /\ mesh = NoMesh
    /\ \E w \in WindowSides, h \in WindowSides :
          /\ transverse_size = calculate_transverse_size(h)
          /\ segmented_width = w - calculate_transverse_size(h)
    /\ coronal_slice = scan.shape[2] \div 2
    /\ sagittal_slice = scan.shape[3] \div 2
    /\ transverse_slice = scan.shape[1] \div 2
    /\ transverse_position = ScrollUnit * (scan.shape[1] \div 2)
    /\ mouse_down_segmented = FALSE
    /\ mouse_down_transverse = FALSE
    /\ zoom = InitialZoom * ScrollUnit

\* Lines 375-381.
on_mouse_press ==
    /\ pc = "viewer"
    /\ \E x \in MouseCoords, y \in MouseCoords, left \in BOOLEAN :
          IF left /\ ~mouse_down_segmented /\ x < segmented_width
          THEN /\ mouse_down_segmented' = TRUE
               /\ mouse_down_transverse' = mouse_down_transverse
          ELSE IF /\ left
                  /\ ~mouse_down_transverse
                  /\ x >= segmented_width
                  /\ 2 * y > transverse_size
          THEN /\ mouse_down_transverse' = TRUE
               /\ mouse_down_segmented' = mouse_down_segmented
          ELSE UNCHANGED <<mouse_down_segmented, mouse_down_transverse>>
    /\ UNCHANGED <<transverse_size, segmented_width, coronal_slice, sagittal_slice,
                   transverse_slice, transverse_position, zoom>>
    /\ UNCHANGED segmenter_vars

\* Lines 347-373.  A drag of the mesh view changes the rotation only.
on_mouse_drag ==
    /\ pc = "viewer"
    /\ \E x \in MouseCoords, y \in MouseCoords :
          IF ~mouse_down_segmented /\ mouse_down_transverse
          THEN /\ sagittal_slice' =
                     SliceAt(x - segmented_width, transverse_size, scan.shape[3])
               /\ coronal_slice' =
                     SliceAt(3 * transverse_size - 2 * y, 2 * transverse_size, scan.shape[2])
          ELSE UNCHANGED <<sagittal_slice, coronal_slice>>
    /\ UNCHANGED <<transverse_size, segmented_width, transverse_slice,
                   transverse_position, mouse_down_segmented, mouse_down_transverse, zoom>>
    /\ UNCHANGED segmenter_vars

\* Lines 383-385.
on_mouse_release ==
    /\ pc = "viewer"
    /\ mouse_down_segmented' = FALSE
    /\ mouse_down_transverse' = FALSE
    /\ UNCHANGED <<transverse_size, segmented_width, coronal_slice, sagittal_slice,
                   transverse_slice, transverse_position, zoom>>
    /\ UNCHANGED segmenter_vars

\* Lines 393-399 for the position p and the scroll amount scroll_y: the new
\* transverse_position and transverse_slice.
ScrollTransverse(p, scroll_y, slice, depth) ==
    LET max_index == depth - 1
        moved == p - scroll_y
        position == IF moved < 0 THEN 0
                    ELSE IF moved > ScrollUnit * max_index THEN ScrollUnit * max_index
                    ELSE moved
        rounded == PyRound(position)
        new_slice == IF rounded < 0 THEN 0
                     ELSE IF rounded > max_index THEN max_index
                     ELSE rounded
    IN  [transverse_position |-> position,
         transverse_slice |-> IF new_slice # slice THEN new_slice ELSE slice]

\* Lines 387-401.  The zoom is kept within MaxZoomTravel rates of its start.
on_mouse_scroll ==
    /\ pc = "viewer"
    /\ \E x \in MouseCoords, scroll_y \in ScrollAmounts :
          IF x < segmented_width
          THEN /\ Abs(zoom - scroll_y * ZoomRate - InitialZoom * ScrollUnit)
                     <= MaxZoomTravel * ZoomRate
               /\ zoom' = zoom - scroll_y * ZoomRate
               /\ UNCHANGED <<transverse_position, transverse_slice>>
          ELSE \E r \in {ScrollTransverse(transverse_position, scroll_y,
                                          transverse_slice, scan.shape[1])} :
                  /\ transverse_position' = r.transverse_position
                  /\ transverse_slice' = r.transverse_slice
                  /\ zoom' = zoom
    /\ UNCHANGED <<transverse_size, segmented_width, coronal_slice, sagittal_slice,
                   mouse_down_segmented, mouse_down_transverse>>
    /\ UNCHANGED segmenter_vars

\* Lines 417-426, for a visible window.
on_resize ==
    /\ pc = "viewer"
    /\ \E width \in WindowSides, height \in WindowSides :
          /\ transverse_size' = calculate_transverse_size(height)
          /\ segmented_width' = width - calculate_transverse_size(height)
    /\ UNCHANGED <<coronal_slice, sagittal_slice, transverse_slice, transverse_position,
                   mouse_down_segmented, mouse_down_transverse, zoom>>
    /\ UNCHANGED segmenter_vars

ViewerNext ==
    \/ on_mouse_press
    \/ on_mouse_drag
    \/ on_mouse_release
    \/ on_mouse_scroll
    \/ on_resize

ViewerSpec == ViewerInit /\ [][ViewerNext]_vars

----------------------------------------------------------------------------
\* Notions the properties below are stated with.

\* The voxels an array marks as foreground.
Foreground(arr) == {v \in DOMAIN arr.data : arr.data[v] = MaskForeground}

\* A call has returned its mask.
Returned == pc \in {"done", "meshed"}

\* The region of the corner voxel in the first labeling of the volume vol.
CornerRegion(vol) ==
    LET lab == Label(MakeArray(vol.shape, LAMBDA v : ThresholdValue(vol.data[v])), 0, 3)
    IN  BackgroundRegion(lab, lab.data[<<0, 0, 0>>])

\* Every voxel at or below the cutoff, or every voxel above it.
Uniform(vol) ==
    \/ \A v \in DOMAIN vol.data : vol.data[v] <= DenseThreshold
    \/ \A v \in DOMAIN vol.data : vol.data[v] > DenseThreshold

\* The configurations and intensities that make vol a cube in a shell in air.
NestedAs(vol) ==
    IF vol.shape[1] # vol.shape[2] \/ vol.shape[1] # vol.shape[3]
    THEN {}
    ELSE {q \in NestedConfigs \X NestedIntensities :
             /\ vol.shape[1] = NestedSide(q[1])
             /\ vol = NestedVolume(q[1], q[2][1], q[2][2], q[2][3])}

\* The regions of the non-background voxels of arr under connectivity c.
Regions(arr, bg, c) ==
    ComponentsFrom(arr, Enumerated({v \in DOMAIN arr.data : arr.data[v] # bg}), c, <<>>)

\* Pairs of non-background voxels of equal value that touch (face, edge or corner).
TouchingPairs(arr, bg) ==
    UNION {{<<u, v>> : v \in {w \in Neighbours(u, 3) :
                                 /\ w \in DOMAIN arr.data
                                 /\ arr.data[w] = arr.data[u]}} :
              u \in {x \in DOMAIN arr.data : arr.data[x] # bg}}

\* The touching pairs that touch along an edge or at a corner only and that no
\* face-adjacent path of voxels of their value joins.
DiagonalOnlyPairs(arr, bg) ==
    LET face_label == LabelImage(DOMAIN arr.data, Regions(arr, bg, 1))
    IN  {e \in TouchingPairs(arr, bg) : face_label[e[1]] # face_label[e[2]]}

\* The labelings a state holds with the array each was computed from:
\* the global pass, the per-slice pass and the final pass.
CurrentLabelings ==
    (IF pc \in {"labeled", "relabeled"} THEN {<<mask, labels>>} ELSE {})
    \cup (IF pc = "loop" /\ i > 0 THEN {<<axial_slice, labeling>>} ELSE {})

----------------------------------------------------------------------------
\* C1: for every volume with at least one voxel and both values of the flag,
\* segment_lungs returns (raises nothing) a mask of the shape of the input
\* whose every voxel is 0 or 1.
C1_ShapeAndTwoValues ==
    /\ ~IsEmpty(image) => pc # "raised"
    /\ Returned =>
          /\ mask.shape = image.shape
          /\ DOMAIN mask.data = Voxels(image.shape)
          /\ \A v \in DOMAIN mask.data : mask.data[v] \in {MaskBackground, MaskForeground}

C1_Witness ==
    /\ pc = "done"
    /\ fill_lung_structures
    /\ \E u, v \in DOMAIN mask.data :
          mask.data[u] = MaskBackground /\ mask.data[v] = MaskForeground

\* C2: for a low-density cube inside a high-density shell inside low-density
\* air that contains voxel [0,0,0], the returned foreground is exactly the
\* cube, with the flag set and with it clear.
C2_NestedCubeIsolated ==
    Returned =>
        \A q \in NestedAs(image) :
            \A v \in DOMAIN mask.data :
                mask.data[v] = IF InCube(q[1], v) THEN MaskForeground ELSE MaskBackground

C2_Witness ==
    /\ pc = "done"
    /\ ~fill_lung_structures
    /\ \E q \in NestedAs(image) : q[1].c = 2
    /\ Cardinality(Foreground(mask)) = 8

\* C3: in the returned mask every voxel of the corner voxel's region (of the
\* first labeling) is background.
C3_CornerRegionBackground ==
    (Returned /\ ~IsEmpty(image)) =>
        \A v \in CornerRegion(image) : mask.data[v] = MaskBackground

\* C4 as stated: every labeling uses face adjacency only, so voxels of one
\* class that touch only diagonally and that no face-adjacent path of their
\* class joins get different labels.
C4_FaceAdjacencyOnly ==
    \A p \in CurrentLabelings :
        \A e \in DiagonalOnlyPairs(p[1], 0) : p[2].data[e[1]] # p[2].data[e[2]]

\* C4 as amended: every labeling (global, per-slice, final) uses full
\* adjacency: voxels of one class that touch along a face, an edge or a
\* corner are in the same region.
C4_FullAdjacency ==
    \A p \in CurrentLabelings :
        \A e \in TouchingPairs(p[1], 0) : p[2].data[e[1]] = p[2].data[e[2]]

C4_Witness ==
    /\ pc = "loop"
    /\ i > 0
    /\ \E e \in DiagonalOnlyPairs(axial_slice, 0) :
          labeling.data[e[1]] = labeling.data[e[2]]

\* C5: the returned foreground is empty or exactly one connected region, a
\* largest one among the regions of the inverted candidate mask; every voxel
\* of every other candidate region is background.
C5_LargestRegionOnly ==
    pc = "done" =>
        LET candidates == Regions(labels, 0, 3)
            fg == Foreground(mask)
        IN  /\ (fg = {}) <=> (Len(candidates) = 0)
            /\ fg # {} =>
                  \E k \in 1 .. Len(candidates) :
                      /\ fg = candidates[k]
                      /\ \A j \in 1 .. Len(candidates) :
                            Cardinality(candidates[j]) <= Cardinality(fg)

C5_Witness ==
    /\ pc = "done"
    /\ Len(Regions(labels, 0, 3)) >= 2
    /\ \E v \in DOMAIN labels.data : labels.data[v] = 2 /\ mask.data[v] = MaskForeground

\* C6: running segment_lungs on its own output, re-encoded in the threshold
\* sense, with the same flag returns that output.
C6_Idempotent ==
    (pc = "done" /\ run = 2) => first_mask = Some(mask)

\* C7: a non-empty volume that is entirely at or below the cutoff, or entirely
\* above it, raises nothing and yields a uniform mask; when the final
\* labeling finds no region the mask is all background.
C7_UniformDegenerate ==
    /\ (Uniform(image) /\ ~IsEmpty(image)) => pc # "raised"
    /\ (Returned /\ Uniform(image)) =>
          \A u, v \in DOMAIN mask.data : mask.data[u] = mask.data[v]
    /\ (pc = "done" /\ l_max = None) =>
          \A v \in DOMAIN mask.data : mask.data[v] = MaskBackground

C7_Witness ==
    /\ pc = "done"
    /\ run = 1
    /\ Uniform(image)
    /\ Cardinality(DOMAIN image.data) > 1
    /\ l_max = None
    /\ \E v \in DOMAIN image.data : image.data[v] <= DenseThreshold

\* C8 as stated: a volume with a zero-length axis is rejected before any
\* stage (threshold, labeling, corner lookup) has run.
C8_RejectedBeforeAnyStage ==
    pc = "raised" => (binary_image = "none" /\ labels = Unallocated)

\* C8 as amended: a volume with a zero-length axis is not checked up front:
\* the threshold stage runs, and the call then fails in the labeling or, at
\* the latest, in the corner-voxel lookup (IndexError); it never reaches the
\* in-place updates of the mask and never returns one.  Only such volumes fail.
C8_EmptyFailsByCornerLookup ==
    /\ pc = "raised" =>
          /\ IsEmpty(image)
          /\ binary_image = ThresholdBuffer
          /\ error \in {"LabelError", "IndexError"}
          /\ heap["b2"] = Unallocated
    /\ IsEmpty(image) => pc \in {"start", "thresholded", "labeled", "raised"}

C8_Witness ==
    /\ pc = "raised"
    /\ error = "IndexError"
    /\ image.shape = <<0, 2, 2>>

\* C9: no stage writes to its upstream buffer: during a call of segment_lungs
\* the caller's volume keeps its value, the in-place updates go to the call's
\* own buffers, and generate_mesh_from_scan leaves the mask (and every other
\* buffer) as it was.
C9_NoUpstreamMutation ==
    /\ [](binary_image \in {"none", "b1", "b2"})
    /\ [][/\ (run' = run => heap'["image"] = heap["image"])
          /\ (pc' = "meshed" => heap' = heap)]_vars

C9_Witness ==
    /\ pc = "meshed"
    /\ mesh.status = "ok"
    /\ fill_lung_structures
    /\ heap["b1"] # heap["b2"]
    /\ \E v \in DOMAIN image.data : heap["b1"].data[v] # ThresholdValue(image.data[v]) - 1

\* C10 as stated: the surface is extracted at the midpoint between the two
\* mask states (0.5), whatever the mask and the step.
C10_IsoValueIsMidpoint ==
    pc = "meshed" => mesh.level2 = MidpointLevel2

\* C10 as amended: the surface is extracted at iso-value 0, the background
\* state of the mask, whatever the mask and the step; a vertex on a cell edge
\* then lies on the edge's background voxel, not half-way to the foreground.
C10_IsoValueIsBackground ==
    pc = "meshed" =>
        /\ mesh.level2 = 2 * MaskBackground
        /\ \A vtx \in mesh.verts :
              /\ \A k \in 1 .. 3 : vtx[k] % 2 = 0
              /\ mask.data[<<vtx[3] \div 2, vtx[2] \div 2, vtx[1] \div 2>>] = MaskBackground

C10_Witness ==
    /\ pc = "meshed"
    /\ mesh.status = "ok"
    /\ mesh.step = 2
    /\ mesh.verts # {}

----------------------------------------------------------------------------
\* C11 as stated: for a mask with no foreground voxel generate_mesh_from_scan
\* returns an empty mesh (no vertex, hence no face) and raises nothing.
C11_EmptyMeshNoError ==
    (pc = "meshed" /\ Foreground(mask) = {}) =>
        (mesh.status = "ok" /\ mesh.verts = {})

\* C11 as amended: for a mask with no foreground voxel generate_mesh_from_scan
\* returns nothing: marching_cubes raises ValueError when an axis of the mask
\* has fewer than two voxels, and RuntimeError (no surface found) otherwise.
C11_AllBackgroundRaises ==
    (pc = "meshed" /\ Foreground(mask) = {}) =>
        /\ mesh.verts = {}
        /\ mesh.status =
              IF \E k \in 1 .. 3 : mask.shape[k] < 2 THEN "ValueError" ELSE "RuntimeError"

C11_Witness ==
    /\ pc = "meshed"
    /\ Foreground(mask) = {}
    /\ \A k \in 1 .. 3 : mask.shape[k] >= 2
    /\ mesh.status = "RuntimeError"

----------------------------------------------------------------------------
\* Notions for the per-slice pass. During the pass a voxel of the mask is 1
\* (not dense) or 2 (dense: tissue, or air filled around the body).

\* Slice k of arr as an image of its own: 1 where the slice holds value, else 0.
SliceMarking(arr, k, value) ==
    MakeArray(<<1, arr.shape[2], arr.shape[3]>>,
              LAMBDA v : IF arr.data[<<k, v[2], v[3]>>] = value THEN 1 ELSE 0)

\* The step of the per-slice loop that processes slice i.
FillStep == pc = "loop" /\ pc' = "loop" /\ i' = i + 1

\* The step leaves every slice but slice i as it was.
OtherSlicesKept ==
    /\ heap'[binary_image].shape = heap[binary_image].shape
    /\ \A v \in DOMAIN heap[binary_image].data :
          v[1] # i => heap'[binary_image].data[v] = heap[binary_image].data[v]

\* The step leaves slice i as it was.
SliceKept ==
    \A v \in DOMAIN heap[binary_image].data :
        v[1] = i => heap'[binary_image].data[v] = heap[binary_image].data[v]

\* C12 as stated: every slice is processed on its own; the regions of the
\* slice's non-dense voxels are labeled, a largest one is kept, every other
\* non-dense region of the slice becomes tissue (dense), and a slice with no
\* such region is left unchanged.
C12_NonDenseRegionsFilled ==
    [][FillStep =>
        LET before == heap[binary_image]
            after == heap'[binary_image]
            regions == Regions(SliceMarking(before, i, 1), 0, 2)
        IN  /\ OtherSlicesKept
            /\ IF Len(regions) = 0
               THEN SliceKept
               ELSE \E k \in 1 .. Len(regions) :
                       /\ \A j \in 1 .. Len(regions) :
                             Cardinality(regions[j]) <= Cardinality(regions[k])
                       /\ \A v \in DOMAIN before.data :
                             v[1] = i =>
                                after.data[v] =
                                   IF before.data[v] = 1 /\ <<0, v[2], v[3]>> \notin regions[k]
                                   THEN 2
                                   ELSE before.data[v]]_vars

\* C12 as amended: every slice is processed on its own; the regions of the
\* slice's dense voxels are labeled, a largest one is kept dense, every other
\* voxel of the slice (the smaller dense regions included) is made non-dense,
\* and a slice with no dense voxel is left unchanged.
C12_SmallerDenseRegionsCleared ==
    [][FillStep =>
        LET before == heap[binary_image]
            after == heap'[binary_image]
            regions == Regions(SliceMarking(before, i, 2), 0, 2)
        IN  /\ OtherSlicesKept
            /\ IF Len(regions) = 0
               THEN SliceKept
               ELSE \E k \in 1 .. Len(regions) :
                       /\ \A j \in 1 .. Len(regions) :
                             Cardinality(regions[j]) <= Cardinality(regions[k])
                       /\ \A v \in DOMAIN before.data :
                             v[1] = i =>
                                after.data[v] =
                                   IF <<0, v[2], v[3]>> \in regions[k] THEN 2 ELSE 1]_vars

\* A slice with two dense regions has been processed in a volume of several
\* slices: one of the regions is now non-dense.
C12_Witness ==
    /\ pc = "loop"
    /\ fill_lung_structures
    /\ i > 0
    /\ mask.shape[1] >= 2
    /\ l_max # None
    /\ \E v \in DOMAIN axial_slice.data :
          /\ axial_slice.data[v] = 1
          /\ labeling.data[v] # l_max[1]
          /\ mask.data[<<i - 1, v[2], v[3]>>] = 1

----------------------------------------------------------------------------
\* C13: in a Viewer of a scan with at least one voxel along every axis,
\* whatever mouse presses, drags, releases and scrolls (and resizes) have
\* happened, transverse_slice, coronal_slice and sagittal_slice are indices
\* of axes 0, 1 and 2 of the scan, and transverse_slice is an integer nearest
\* to transverse_position.
C13_SliceIndicesValid ==
    pc = "viewer" =>
        /\ transverse_slice \in 0 .. scan.shape[1] - 1
        /\ coronal_slice \in 0 .. scan.shape[2] - 1
        /\ sagittal_slice \in 0 .. scan.shape[3] - 1
        /\ 2 * Abs(ScrollUnit * transverse_slice - transverse_position) <= ScrollUnit

\* A drag has moved both in-plane indices while the button is held, and
\* scrolling has left the position between two slices, on another slice than
\* the one the window opened with.
C13_Witness ==
    /\ pc = "viewer"
    /\ mouse_down_transverse
    /\ coronal_slice # scan.shape[2] \div 2
    /\ sagittal_slice # scan.shape[3] \div 2
    /\ transverse_slice # scan.shape[1] \div 2
    /\ transverse_position % ScrollUnit # 0
    /\ zoom # InitialZoom * ScrollUnit

====
